---------------------------- MODULE Spec2Model ----------------------------
(***************************************************************************)
(* Model of package atom (julienschmidt/atom): typed wrappers whose single *)
(* field `value` is only accessed through sync/atomic.                     *)
(*                                                                         *)
(* One wrapper instance is modelled at a time.  `kind` is the wrapper type *)
(* of the instance, `value` is its field, and every exported method is an  *)
(* operator from the field's content (and the arguments) to the field's    *)
(* new content and the method's result.  A method call is one action: the *)
(* methods perform exactly one sync/atomic operation.  The exception is    *)
(* Add of Float32 and Float64, a loop of a read and a compare-and-swap:    *)
(* each of its two steps is an action.                                     *)
(*                                                                         *)
(* Machine words are scaled: a 32-bit word has Bits32 bits and a 64-bit    *)
(* word has Bits64 bits.  Arithmetic is done modulo 2^w as the hardware    *)
(* does it, signed values in two's complement.                             *)
(***************************************************************************)
EXTENDS Integers, Sequences, FiniteSets, TLC

VARIABLES
    kind,       \* the wrapper type of the instance
    uintSize,   \* width of int, uint and uintptr on the platform
    value,      \* the instance's field `value`
    last,       \* the last mutating call: method, arguments, field before, result
    got,        \* <<r>> when Value() returned r since the last mutating call
    calls,      \* calls[t] = the calls thread t has completed
    rets,       \* rets[t] = the results of thread t's calls
    log,        \* box scenario: every call made so far, in order; float
                \* scenarios: the Set calls made so far
    thr,        \* thr[t] = thread t's call in progress: position and locals
    abs         \* the value the calls made so far amount to on a plain
                \* variable (order scenario) or in exact arithmetic (floats)

vars == <<kind, uintSize, value, last, got, calls, rets, log, thr, abs>>

-----------------------------------------------------------------------------
(* Bounds *)

Bits32 == 4     \* bits of a "32-bit" word
Bits64 == 5     \* bits of a "64-bit" word
NThreads == 2   \* threads of the concurrent scenarios
NCalls == 2     \* calls per thread in the counter and order scenarios
MaxLog == 4     \* calls made in the box scenario
MaxSets == 3    \* Set calls in the float scenario, the first one included

-----------------------------------------------------------------------------
(* Machine arithmetic *)

Pow2(n) == 2 ^ n

MaxUnsigned(w) == Pow2(w) - 1
MaxSigned(w) == Pow2(w - 1) - 1
MinSigned(w) == 0 - Pow2(w - 1)

Unsigned(w) == 0 .. MaxUnsigned(w)
Signed(w) == MinSigned(w) .. MaxSigned(w)

\* Conversion of an integer to the unsigned type of width w: uintptr(x), uint(x)
ToUnsigned(w, x) == x % Pow2(w)

\* Conversion of an integer to the signed type of width w: int(x), and the
\* result of signed arithmetic, which wraps
ToSigned(w, x) ==
    LET u == x % Pow2(w)
    IN  IF u >= Pow2(w - 1) THEN u - Pow2(w) ELSE u

\* negation that saturates: the minimum's negation is the maximum
NegSaturating(w, x) ==
    IF x = MinSigned(w) THEN MaxSigned(w) ELSE 0 - x
\* -x on a signed type of width w
Neg(w, x) == ToSigned(w, 0 - x)

\* ^x on an unsigned type of width w
Complement(w, x) == MaxUnsigned(w) - x

\* Results of a call: the field afterwards, the returned value, and whether
\* the call panicked.
Void == "void"
Ok(v, r) == [value |-> v, ret |-> r, panic |-> FALSE]
Panic(v) == [value |-> v, ret |-> Void, panic |-> TRUE]

-----------------------------------------------------------------------------
(* sync/atomic on machine words.  Each is one indivisible step. *)

Load(v) == Ok(v, v)

Store(v, x) == Ok(x, Void)

Swap(v, new) == Ok(new, v)

CompareAndSwap(v, old, new) ==
    IF v = old THEN Ok(new, TRUE) ELSE Ok(v, FALSE)

\* AddUint32, AddUint64, AddUintptr
AddUnsigned(w, v, delta) ==
    LET n == ToUnsigned(w, v + delta) IN Ok(n, n)

\* AddInt32, AddInt64
AddSigned(w, v, delta) ==
    LET n == ToSigned(w, v + delta) IN Ok(n, n)

-----------------------------------------------------------------------------
(* sync/atomic.Value: a box that holds an interface value.  An interface   *)
(* value is a concrete type and a payload; nil is the interface value with *)
(* no type.  Store panics on nil and on a concrete type other than the one *)
(* first stored, and then leaves the box as it was.                        *)

Iface(t, d) == [typ |-> t, data |-> d]
Nil == Iface("nil", "nil")

AtomicValueLoad(v) == Ok(v, v)

AtomicValueStore(v, x) ==
    IF x = Nil THEN Panic(v)
    ELSE IF v # Nil /\ v.typ # x.typ THEN Panic(v)
    ELSE Ok(x, Void)

-----------------------------------------------------------------------------
(* math.Float32bits and friends: an IEEE-754 value is a sign, a biased     *)
(* exponent and a mantissa, laid out in that order from the top bit.       *)

ExpBits(w) == w \div 2
ManBits(w) == w - 1 - ExpBits(w)

Floats(w) ==
    [sign : 0 .. 1, exp : 0 .. Pow2(ExpBits(w)) - 1, man : 0 .. Pow2(ManBits(w)) - 1]

Floatbits(w, f) ==
    f.sign * Pow2(w - 1) + f.exp * Pow2(ManBits(w)) + f.man

Floatfrombits(w, b) ==
    [sign |-> b \div Pow2(w - 1),
     exp  |-> (b \div Pow2(ManBits(w))) % Pow2(ExpBits(w)),
     man  |-> b % Pow2(ManBits(w))]

\* float values: not a number, and the == of the language (NaN equals
\* nothing, the two zeros equal each other)
IsNaN(w, f) == f.exp = Pow2(ExpBits(w)) - 1 /\ f.man # 0
IsInf(w, f) == f.exp = Pow2(ExpBits(w)) - 1 /\ f.man = 0
IsZero(f) == f.exp = 0 /\ f.man = 0
FloatEq(w, a, b) ==
    /\ ~IsNaN(w, a)
    /\ ~IsNaN(w, b)
    /\ a = b \/ (IsZero(a) /\ IsZero(b))
\* a finite float as an integer: its value in units of the smallest
\* subnormal
FloatNum(w, f) ==
    LET mag == IF f.exp = 0
               THEN f.man
               ELSE (Pow2(ManBits(w)) + f.man) * Pow2(f.exp - 1)
    IN  IF f.sign = 1 THEN 0 - mag ELSE mag

\* the float of sign `sign` nearest to the magnitude n > 0 (in units of the
\* smallest subnormal), ties to the even mantissa, infinity on overflow
FloatRound(w, sign, n) ==
    LET m == ManBits(w)
        top == Pow2(m + 1)
    IN  IF n < Pow2(m) THEN [sign |-> sign, exp |-> 0, man |-> n]
        ELSE IF n < top THEN [sign |-> sign, exp |-> 1, man |-> n - Pow2(m)]
        ELSE LET k == CHOOSE i \in 1 .. Pow2(ExpBits(w)) + 1 :
                        n \div Pow2(i) >= Pow2(m) /\ n \div Pow2(i) < top
                 q == n \div Pow2(k)
                 r == n % Pow2(k)
                 up == r > Pow2(k - 1) \/ (r = Pow2(k - 1) /\ q % 2 = 1)
                 q2 == IF up THEN q + 1 ELSE q
                 e == IF q2 = top THEN k + 2 ELSE k + 1
                 man == IF q2 = top THEN 0 ELSE q2 - Pow2(m)
             IN  IF e > Pow2(ExpBits(w)) - 2
                 THEN [sign |-> sign, exp |-> Pow2(ExpBits(w)) - 1, man |-> 0]
                 ELSE [sign |-> sign, exp |-> e, man |-> man]

\* a + b of the language on float32/float64 (IEEE 754, round to nearest
\* even): the set of results a build can produce.  Which NaN comes out of an
\* operation on NaNs or of Inf + -Inf depends on the processor: the quieted
\* NaN operands, or the default NaN of either sign.
FloatPlus(w, a, b) ==
    IF IsNaN(w, a) \/ IsNaN(w, b)
    THEN {IF f.man >= Pow2(ManBits(w) - 1) THEN f
          ELSE [f EXCEPT !.man = @ + Pow2(ManBits(w) - 1)] :
                f \in {g \in {a, b} : IsNaN(w, g)}}
    ELSE IF IsInf(w, a) /\ IsInf(w, b)
    THEN IF a.sign = b.sign THEN {a}
         ELSE {[sign |-> s, exp |-> a.exp, man |-> Pow2(ManBits(w) - 1)] : s \in 0 .. 1}
    ELSE IF IsInf(w, a) THEN {a}
    ELSE IF IsInf(w, b) THEN {b}
    ELSE LET n == FloatNum(w, a) + FloatNum(w, b)
         IN  IF n = 0
             THEN {[sign |-> IF a.sign = 1 /\ b.sign = 1 THEN 1 ELSE 0,
                    exp |-> 0, man |-> 0]}
             ELSE IF n < 0 THEN {FloatRound(w, 1, 0 - n)}
             ELSE {FloatRound(w, 0, n)}

\* -f of the language
FloatNeg(f) == [f EXCEPT !.sign = 1 - @]
Float32bits(f) == Floatbits(Bits32, f)
Float32frombits(b) == Floatfrombits(Bits32, b)
Float64bits(f) == Floatbits(Bits64, f)
Float64frombits(b) == Floatfrombits(Bits64, b)

-----------------------------------------------------------------------------
(* Pointer: value unsafe.Pointer.  An address; nil is 0. *)

\* PointerCompareAndSwap that stores new whatever the slot holds
PointerCompareAndSwapAlways(v, old, new) == Ok(new, TRUE)
PointerCompareAndSwap(v, old, new) == CompareAndSwap(v, old, new)
PointerSet(v, x) == Store(v, x)
PointerSwap(v, new) == Swap(v, new)
PointerValue(v) == Load(v)

-----------------------------------------------------------------------------
(* Bool: value uint32 *)

\* BoolCompareAndSwap with the encoding of old left out
BoolCompareAndSwapOldUnset(v, old, new) ==
    LET uold == 0
        unew == IF new THEN 1 ELSE 0
    IN  CompareAndSwap(v, uold, unew)
BoolCompareAndSwap(v, old, new) ==
    LET uold == IF old THEN 1 ELSE 0
        unew == IF new THEN 1 ELSE 0
    IN  CompareAndSwap(v, uold, unew)

\* BoolSet storing all bits set for true
BoolSetAllOnes(v, x) ==
    IF x THEN Store(v, MaxUnsigned(Bits32)) ELSE Store(v, 0)
BoolSet(v, x) ==
    IF x THEN Store(v, 1) ELSE Store(v, 0)

\* BoolSwap whose second branch swaps in 1 as the first does
BoolSwapBothOne(v, new) ==
    IF new
    THEN LET r == Swap(v, 1) IN Ok(r.value, r.ret > 0)
    ELSE LET r == Swap(v, 1) IN Ok(r.value, r.ret > 0)
BoolSwap(v, new) ==
    IF new
    THEN LET r == Swap(v, 1) IN Ok(r.value, r.ret > 0)
    ELSE LET r == Swap(v, 0) IN Ok(r.value, r.ret > 0)

BoolValue(v) == Ok(v, Load(v).ret > 0)

-----------------------------------------------------------------------------
(* Duration: value int64 *)

DurationAdd(v, delta) == AddSigned(Bits64, v, delta)
DurationCompareAndSwap(v, old, new) == CompareAndSwap(v, old, new)
DurationSet(v, x) == Store(v, x)
DurationSub(v, delta) == AddSigned(Bits64, v, Neg(Bits64, delta))
DurationSwap(v, new) == Swap(v, new)
DurationValue(v) == Load(v)

-----------------------------------------------------------------------------
(* Error: value atomic.Value *)

\* errors.New("nil"): a pointer to an errorString, distinct from every other
errNil == Iface("*errors.errorString", "errNil")

ErrorSet(v, x) ==
    AtomicValueStore(v, IF x = Nil THEN errNil ELSE x)

ErrorValue(v) ==
    LET l == AtomicValueLoad(v).ret
    IN  IF l = Nil \/ l = errNil THEN Ok(v, Nil) ELSE Ok(v, l)

-----------------------------------------------------------------------------
(* Float32: value uint32 *)

\* Float32CompareAndSwap comparing the held float with old by ==
Float32CompareAndSwapNumeric(v, old, new) ==
    IF FloatEq(Bits32, Float32frombits(v), old)
    THEN Ok(Float32bits(new), TRUE)
    ELSE Ok(v, FALSE)
\* Float32CompareAndSwap that stores new whatever the slot holds
Float32CompareAndSwapAlways(v, old, new) == Ok(Float32bits(new), TRUE)
Float32CompareAndSwap(v, old, new) ==
    CompareAndSwap(v, Float32bits(old), Float32bits(new))

\* One iteration of the loop of Float32.Add after its read returned old:
\* new := old + delta, then the compare-and-swap.  The results a build can
\* produce: the field after it, whether it swapped (the loop returns new) or
\* not (the loop reads again).
\* the iteration of Float32.Add storing new without comparing
Float32AddStoreOnly(v, old, delta) ==
    {[value |-> Store(v, Float32bits(new)).value, swapped |-> TRUE, new |-> new] :
        new \in FloatPlus(Bits32, old, delta)}
Float32Add(v, old, delta) ==
    {[value |-> Float32CompareAndSwap(v, old, new).value,
      swapped |-> Float32CompareAndSwap(v, old, new).ret,
      new |-> new] : new \in FloatPlus(Bits32, old, delta)}

Float32Set(v, x) == Store(v, Float32bits(x))

\* Float32Sub handing delta to Add as it is
Float32SubNotNegated(delta) == delta
\* Sub(delta) is Add(-delta): the delta Add is called with
Float32Sub(delta) == FloatNeg(delta)

Float32Swap(v, new) ==
    LET r == Swap(v, Float32bits(new)) IN Ok(r.value, Float32frombits(r.ret))
\* Float32Value returning +0.0 for either zero
Float32ValueOneZero(v) ==
    IF IsZero(Float32frombits(Load(v).ret))
    THEN Ok(v, [sign |-> 0, exp |-> 0, man |-> 0])
    ELSE Ok(v, Float32frombits(Load(v).ret))
Float32Value(v) == Ok(v, Float32frombits(Load(v).ret))

-----------------------------------------------------------------------------
(* Float64: value uint64 *)

Float64CompareAndSwap(v, old, new) ==
    CompareAndSwap(v, Float64bits(old), Float64bits(new))

\* One iteration of the loop of Float64.Add after its read returned old:
\* new := old + delta, then the compare-and-swap.  The results a build can
\* produce: the field after it, whether it swapped (the loop returns new) or
\* not (the loop reads again).
Float64Add(v, old, delta) ==
    {[value |-> Float64CompareAndSwap(v, old, new).value,
      swapped |-> Float64CompareAndSwap(v, old, new).ret,
      new |-> new] : new \in FloatPlus(Bits64, old, delta)}

Float64Set(v, x) == Store(v, Float64bits(x))

\* Sub(delta) is Add(-delta): the delta Add is called with
Float64Sub(delta) == FloatNeg(delta)

Float64Swap(v, new) ==
    LET r == Swap(v, Float64bits(new)) IN Ok(r.value, Float64frombits(r.ret))
Float64Value(v) == Ok(v, Float64frombits(Load(v).ret))

-----------------------------------------------------------------------------
(* Int: value uintptr *)

\* IntAdd without the conversion of the new word to int
IntAddNotConverted(v, delta) ==
    AddUnsigned(uintSize, v, ToUnsigned(uintSize, delta))
IntAdd(v, delta) ==
    LET r == AddUnsigned(uintSize, v, ToUnsigned(uintSize, delta))
    IN  Ok(r.value, ToSigned(uintSize, r.ret))
IntCompareAndSwap(v, old, new) ==
    CompareAndSwap(v, ToUnsigned(uintSize, old), ToUnsigned(uintSize, new))
IntSet(v, x) == Store(v, ToUnsigned(uintSize, x))
IntSub(v, delta) == IntAdd(v, Neg(uintSize, delta))
IntSwap(v, new) ==
    LET r == Swap(v, ToUnsigned(uintSize, new))
    IN  Ok(r.value, ToSigned(uintSize, r.ret))
\* IntValue without the conversion of the loaded word to int
IntValueNotConverted(v) == Load(v)
IntValue(v) == Ok(v, ToSigned(uintSize, Load(v).ret))

-----------------------------------------------------------------------------
(* Int32: value int32 *)

Int32Add(v, delta) == AddSigned(Bits32, v, delta)
Int32CompareAndSwap(v, old, new) == CompareAndSwap(v, old, new)
Int32Set(v, x) == Store(v, x)
Int32Sub(v, delta) == Int32Add(v, Neg(Bits32, delta))
Int32Swap(v, new) == Swap(v, new)
Int32Value(v) == Load(v)

-----------------------------------------------------------------------------
(* Int64: value int64 *)

\* Int64Add returning the value before the addition
Int64AddFetchOld(v, delta) ==
    LET r == AddSigned(Bits64, v, delta) IN Ok(r.value, v)
Int64Add(v, delta) == AddSigned(Bits64, v, delta)
Int64CompareAndSwap(v, old, new) == CompareAndSwap(v, old, new)
Int64Set(v, x) == Store(v, x)
Int64Sub(v, delta) == Int64Add(v, Neg(Bits64, delta))
Int64Swap(v, new) == Swap(v, new)
Int64Value(v) == Load(v)

-----------------------------------------------------------------------------
(* String: value atomic.Value *)

StringSet(v, x) == AtomicValueStore(v, Iface("string", x))

\* StringValue with the nil check left out: the type assertion on an empty box
StringValueNoNilCheck(v) ==
    LET l == AtomicValueLoad(v).ret
    IN  IF l.typ = "string" THEN Ok(v, l.data) ELSE Panic(v)
StringValue(v) ==
    LET l == AtomicValueLoad(v).ret
    IN  IF l = Nil THEN Ok(v, "")
        ELSE IF l.typ = "string" THEN Ok(v, l.data) ELSE Panic(v)

-----------------------------------------------------------------------------
(* Uint: value uintptr *)

UintAdd(v, delta) == AddUnsigned(uintSize, v, ToUnsigned(uintSize, delta))
UintCompareAndSwap(v, old, new) ==
    CompareAndSwap(v, ToUnsigned(uintSize, old), ToUnsigned(uintSize, new))
UintSet(v, x) == Store(v, ToUnsigned(uintSize, x))
UintSub(v, delta) ==
    UintAdd(v, Complement(uintSize, ToUnsigned(uintSize, delta - 1)))
UintSwap(v, new) == Swap(v, ToUnsigned(uintSize, new))
UintValue(v) == Load(v)

-----------------------------------------------------------------------------
(* Uint32: value uint32 *)

Uint32Add(v, delta) == AddUnsigned(Bits32, v, delta)
Uint32CompareAndSwap(v, old, new) == CompareAndSwap(v, old, new)
Uint32Set(v, x) == Store(v, x)
\* Uint32Sub that adds the complement of delta, not of delta - 1
Uint32SubComplementOfDelta(v, delta) ==
    Uint32Add(v, Complement(Bits32, delta))
Uint32Sub(v, delta) ==
    Uint32Add(v, Complement(Bits32, ToUnsigned(Bits32, delta - 1)))
Uint32Swap(v, new) == Swap(v, new)
Uint32Value(v) == Load(v)

-----------------------------------------------------------------------------
(* Uint64: value uint64 *)

\* Uint64Add that returns the sum and leaves the field as it was
Uint64AddNotStored(v, delta) ==
    Ok(v, AddUnsigned(Bits64, v, delta).ret)
Uint64Add(v, delta) == AddUnsigned(Bits64, v, delta)
Uint64CompareAndSwap(v, old, new) == CompareAndSwap(v, old, new)
Uint64Set(v, x) == Store(v, x)
Uint64Sub(v, delta) ==
    Uint64Add(v, Complement(Bits64, ToUnsigned(Bits64, delta - 1)))
\* Uint64Swap returning the value it stored
Uint64SwapReturnsNew(v, new) ==
    LET r == Swap(v, new) IN Ok(r.value, new)
Uint64Swap(v, new) == Swap(v, new)
Uint64Value(v) == Load(v)

-----------------------------------------------------------------------------
(* Uintptr: value uintptr *)

UintptrAdd(v, delta) == AddUnsigned(uintSize, v, delta)
UintptrCompareAndSwap(v, old, new) == CompareAndSwap(v, old, new)
UintptrSet(v, x) == Store(v, x)
UintptrSub(v, delta) ==
    UintptrAdd(v, Complement(uintSize, ToUnsigned(uintSize, delta - 1)))
UintptrSwap(v, new) == Swap(v, new)
UintptrValue(v) == Load(v)

-----------------------------------------------------------------------------
(* Value: value atomic.Value *)

\* ValueSet that stores whatever it is given
ValueSetUnchecked(v, x) == Ok(x, Void)
\* ValueSet that has stored the value when the type check panics
ValueSetStoredBeforePanic(v, x) ==
    IF AtomicValueStore(v, x).panic /\ x # Nil
    THEN Panic(x)
    ELSE AtomicValueStore(v, x)
ValueSet(v, x) == AtomicValueStore(v, x)
ValueValue(v) == AtomicValueLoad(v)

-----------------------------------------------------------------------------
(* The wrapper types and their method sets *)

SignedKinds == {"Duration", "Int", "Int32", "Int64"}
UnsignedKinds == {"Uint", "Uint32", "Uint64", "Uintptr"}
IntegerKinds == SignedKinds \cup UnsignedKinds
FloatKinds == {"Float32", "Float64"}
BoxKinds == {"Error", "String", "Value"}
WordKinds == {"Bool", "Pointer"} \cup IntegerKinds \cup FloatKinds
Kinds == WordKinds \cup BoxKinds

\* the kinds whose width is the platform's
PlatformKinds == {"Int", "Uint", "Uintptr"}

\* the width of the wrapped type
Width(k) ==
    CASE k \in {"Int32", "Uint32", "Float32"} -> Bits32
      [] k \in {"Duration", "Int64", "Uint64", "Float64"} -> Bits64
      [] k \in PlatformKinds -> uintSize

HasSwap(k) == k \in WordKinds
HasCompareAndSwap(k) == k \in WordKinds
HasAdd(k) == k \in IntegerKinds

Value_(k, v) ==
    CASE k = "Pointer" -> PointerValue(v)
      [] k = "Bool" -> BoolValue(v)
      [] k = "Duration" -> DurationValue(v)
      [] k = "Error" -> ErrorValue(v)
      [] k = "Float32" -> Float32Value(v)
      [] k = "Float64" -> Float64Value(v)
      [] k = "Int" -> IntValue(v)
      [] k = "Int32" -> Int32Value(v)
      [] k = "Int64" -> Int64Value(v)
      [] k = "String" -> StringValue(v)
      [] k = "Uint" -> UintValue(v)
      [] k = "Uint32" -> Uint32Value(v)
      [] k = "Uint64" -> Uint64Value(v)
      [] k = "Uintptr" -> UintptrValue(v)
      [] k = "Value" -> ValueValue(v)

Set_(k, v, x) ==
    CASE k = "Pointer" -> PointerSet(v, x)
      [] k = "Bool" -> BoolSet(v, x)
      [] k = "Duration" -> DurationSet(v, x)
      [] k = "Error" -> ErrorSet(v, x)
      [] k = "Float32" -> Float32Set(v, x)
      [] k = "Float64" -> Float64Set(v, x)
      [] k = "Int" -> IntSet(v, x)
      [] k = "Int32" -> Int32Set(v, x)
      [] k = "Int64" -> Int64Set(v, x)
      [] k = "String" -> StringSet(v, x)
      [] k = "Uint" -> UintSet(v, x)
      [] k = "Uint32" -> Uint32Set(v, x)
      [] k = "Uint64" -> Uint64Set(v, x)
      [] k = "Uintptr" -> UintptrSet(v, x)
      [] k = "Value" -> ValueSet(v, x)

Swap_(k, v, new) ==
    CASE k = "Pointer" -> PointerSwap(v, new)
      [] k = "Bool" -> BoolSwap(v, new)
      [] k = "Duration" -> DurationSwap(v, new)
      [] k = "Float32" -> Float32Swap(v, new)
      [] k = "Float64" -> Float64Swap(v, new)
      [] k = "Int" -> IntSwap(v, new)
      [] k = "Int32" -> Int32Swap(v, new)
      [] k = "Int64" -> Int64Swap(v, new)
      [] k = "Uint" -> UintSwap(v, new)
      [] k = "Uint32" -> Uint32Swap(v, new)
      [] k = "Uint64" -> Uint64Swap(v, new)
      [] k = "Uintptr" -> UintptrSwap(v, new)

CompareAndSwap_(k, v, old, new) ==
    CASE k = "Pointer" -> PointerCompareAndSwap(v, old, new)
      [] k = "Bool" -> BoolCompareAndSwap(v, old, new)
      [] k = "Duration" -> DurationCompareAndSwap(v, old, new)
      [] k = "Float32" -> Float32CompareAndSwap(v, old, new)
      [] k = "Float64" -> Float64CompareAndSwap(v, old, new)
      [] k = "Int" -> IntCompareAndSwap(v, old, new)
      [] k = "Int32" -> Int32CompareAndSwap(v, old, new)
      [] k = "Int64" -> Int64CompareAndSwap(v, old, new)
      [] k = "Uint" -> UintCompareAndSwap(v, old, new)
      [] k = "Uint32" -> Uint32CompareAndSwap(v, old, new)
      [] k = "Uint64" -> Uint64CompareAndSwap(v, old, new)
      [] k = "Uintptr" -> UintptrCompareAndSwap(v, old, new)

Add_(k, v, delta) ==
    CASE k = "Duration" -> DurationAdd(v, delta)
      [] k = "Int" -> IntAdd(v, delta)
      [] k = "Int32" -> Int32Add(v, delta)
      [] k = "Int64" -> Int64Add(v, delta)
      [] k = "Uint" -> UintAdd(v, delta)
      [] k = "Uint32" -> Uint32Add(v, delta)
      [] k = "Uint64" -> Uint64Add(v, delta)
      [] k = "Uintptr" -> UintptrAdd(v, delta)

Sub_(k, v, delta) ==
    CASE k = "Duration" -> DurationSub(v, delta)
      [] k = "Int" -> IntSub(v, delta)
      [] k = "Int32" -> Int32Sub(v, delta)
      [] k = "Int64" -> Int64Sub(v, delta)
      [] k = "Uint" -> UintSub(v, delta)
      [] k = "Uint32" -> Uint32Sub(v, delta)
      [] k = "Uint64" -> Uint64Sub(v, delta)
      [] k = "Uintptr" -> UintptrSub(v, delta)

\* one iteration of the float wrappers' Add loop, and the delta of Sub
AddLoop_(k, v, old, delta) ==
    CASE k = "Float32" -> Float32Add(v, old, delta)
      [] k = "Float64" -> Float64Add(v, old, delta)

SubDelta_(k, delta) ==
    CASE k = "Float32" -> Float32Sub(delta)
      [] k = "Float64" -> Float64Sub(delta)
\* The zero value of the field: what a declared, unused wrapper holds.
Zero(k) == IF k \in BoxKinds THEN Nil ELSE 0

\* what Value() of a declared, never written wrapper is to return
ZeroValue(k) ==
    CASE k = "Bool" -> FALSE
      [] k = "Pointer" -> 0
      [] k \in IntegerKinds -> 0
      [] k \in FloatKinds -> Floatfrombits(Width(k), 0)
      [] k = "String" -> ""
      [] k \in {"Error", "Value"} -> Nil

-----------------------------------------------------------------------------
(* The values a caller can pass *)

\* every value of the wrapped type (integer kinds)
Domain(k) == IF k \in SignedKinds THEN Signed(Width(k)) ELSE Unsigned(Width(k))

PosZero(w) == [sign |-> 0, exp |-> 0, man |-> 0]
NegZero(w) == [sign |-> 1, exp |-> 0, man |-> 0]
One(w) == [sign |-> 0, exp |-> Pow2(ExpBits(w) - 1) - 1, man |-> 0]
MaxFloat(w) ==
    [sign |-> 0, exp |-> Pow2(ExpBits(w)) - 2, man |-> Pow2(ManBits(w)) - 1]
PosInf(w) == [sign |-> 0, exp |-> Pow2(ExpBits(w)) - 1, man |-> 0]
NaNs(w) ==
    {f \in Floats(w) : f.exp = Pow2(ExpBits(w)) - 1 /\ f.man = Pow2(ManBits(w)) - 1}

\* the arguments the calls of the model are made with: the values at and
\* next to the ends of the type's range
Inputs(k) ==
    CASE k = "Bool" -> BOOLEAN
      [] k = "Pointer" -> {0, 4, 8}
      [] k \in SignedKinds ->
            {MinSigned(Width(k)), MinSigned(Width(k)) + 1, 0 - 1, 0, 1,
             MaxSigned(Width(k))}
      [] k \in UnsignedKinds ->
            {0, 1, 2, Pow2(Width(k) - 1), MaxUnsigned(Width(k)) - 1,
             MaxUnsigned(Width(k))}
      [] k \in FloatKinds ->
            {PosZero(Width(k)), NegZero(Width(k)), One(Width(k)),
             MaxFloat(Width(k)), PosInf(Width(k))} \cup NaNs(Width(k))
      [] k = "String" -> {"", "a", "b"}
      [] k = "Error" ->
            {Nil, Iface("*errors.errorString", "a"),
             Iface("*errors.errorString", "b"), Iface("*os.PathError", "c")}
      [] k = "Value" ->
            {Nil, Iface("uint64", "1337"), Iface("uint64", "987654321"),
             Iface("string", "x")}

-----------------------------------------------------------------------------
(* The instance under sequential use: any method, any argument, any order *)

NoCall ==
    [op |-> "none", a |-> Void, b |-> Void, pre |-> Void, ret |-> Void,
     panic |-> FALSE]

\* a thread that is in no call
NoThread ==
    [pc |-> "idle", op |-> "none", arg |-> Void, old |-> Void, at |-> Void,
     attempts |-> 0, dirty |-> FALSE]

Init ==
    /\ kind \in Kinds
    /\ uintSize \in (IF kind \in PlatformKinds THEN {Bits32, Bits64} ELSE {Bits64})
    /\ value = Zero(kind)
    /\ last = NoCall
    /\ got = <<>>
    /\ calls = [t \in 1 .. NThreads |-> 0]
    /\ rets = [t \in 1 .. NThreads |-> <<>>]
    /\ log = <<>>
    /\ thr = [t \in 1 .. NThreads |-> NoThread]
    /\ abs = Void

\* the effect of a mutating call with result r on the instance and the record
Called(op, a, b, r) ==
    /\ value' = r.value
    /\ last' = [op |-> op, a |-> a, b |-> b, pre |-> value, ret |-> r.ret,
                panic |-> r.panic]
    /\ got' = <<>>
    /\ UNCHANGED <<thr, abs, kind, uintSize, calls, rets, log>>

CallValue ==
    /\ got' = <<Value_(kind, value).ret>>
    /\ value' = Value_(kind, value).value
    /\ UNCHANGED <<thr, abs, kind, uintSize, last, calls, rets, log>>

CallSet ==
    \E x \in Inputs(kind) : Called("Set", x, Void, Set_(kind, value, x))

CallSwap ==
    /\ HasSwap(kind)
    /\ \E new \in Inputs(kind) : Called("Swap", new, Void, Swap_(kind, value, new))

\* old is also drawn from what Value() returns: the caller that read first
CallCompareAndSwap ==
    /\ HasCompareAndSwap(kind)
    /\ \E old \in Inputs(kind) \cup {Value_(kind, value).ret} :
       \E new \in Inputs(kind) :
            Called("CompareAndSwap", old, new, CompareAndSwap_(kind, value, old, new))

CallAdd ==
    /\ HasAdd(kind)
    /\ \E delta \in Inputs(kind) : Called("Add", delta, Void, Add_(kind, value, delta))

CallSub ==
    /\ HasAdd(kind)
    /\ \E delta \in Inputs(kind) : Called("Sub", delta, Void, Sub_(kind, value, delta))

Next ==
    \/ CallValue
    \/ CallSet
    \/ CallSwap
    \/ CallCompareAndSwap
    \/ CallAdd
    \/ CallSub

Spec == Init /\ [][Next]_vars

-----------------------------------------------------------------------------
(* The counter scenario: NThreads threads share one integer wrapper that   *)
(* starts at 0; each calls Add(1) NCalls times; when all calls have        *)
(* returned the value is read.  A call is one atomic add, so the threads'  *)
(* calls interleave in every order.                                        *)

Threads == 1 .. NThreads

InitCounter ==
    /\ kind \in IntegerKinds
    /\ uintSize \in (IF kind \in PlatformKinds THEN {Bits32, Bits64} ELSE {Bits64})
    /\ value = Zero(kind)
    /\ last = NoCall
    /\ got = <<>>
    /\ calls = [t \in Threads |-> 0]
    /\ rets = [t \in Threads |-> <<>>]
    /\ log = <<>>
    /\ thr = [t \in 1 .. NThreads |-> NoThread]
    /\ abs = Void

AllReturned == \A t \in Threads : calls[t] = NCalls

ThreadAdd(t) ==
    /\ calls[t] < NCalls
    /\ LET r == Add_(kind, value, 1)
       IN  /\ value' = r.value
           /\ last' = [op |-> "Add", a |-> 1, b |-> Void, pre |-> value,
                       ret |-> r.ret, panic |-> r.panic]
           /\ rets' = [rets EXCEPT ![t] = Append(@, r.ret)]
    /\ calls' = [calls EXCEPT ![t] = @ + 1]
    /\ got' = <<>>
    /\ UNCHANGED <<thr, abs, kind, uintSize, log>>

ReadCounter ==
    /\ AllReturned
    /\ got' = <<Value_(kind, value).ret>>
    /\ UNCHANGED <<thr, abs, kind, uintSize, value, last, calls, rets, log>>

NextCounter ==
    \/ \E t \in Threads : ThreadAdd(t)
    \/ ReadCounter

SpecCounter == InitCounter /\ [][NextCounter]_vars
-----------------------------------------------------------------------------
(* The box scenario: one Error, String or Value instance, up to MaxLog     *)
(* calls of Set and Value in any order with any arguments, every call      *)
(* logged.  A Set that panics leaves the instance usable: the caller may   *)
(* recover and go on.                                                      *)

InitBox ==
    /\ kind \in BoxKinds
    /\ uintSize = Bits64
    /\ value = Zero(kind)
    /\ last = NoCall
    /\ got = <<>>
    /\ calls = [t \in Threads |-> 0]
    /\ rets = [t \in Threads |-> <<>>]
    /\ log = <<>>
    /\ thr = [t \in 1 .. NThreads |-> NoThread]
    /\ abs = Void

Logged(op, a, r) == [op |-> op, a |-> a, ret |-> r.ret, panic |-> r.panic]

BoxSet ==
    /\ Len(log) < MaxLog
    /\ \E x \in Inputs(kind) :
        LET r == Set_(kind, value, x)
        IN  /\ value' = r.value
            /\ last' = [op |-> "Set", a |-> x, b |-> Void, pre |-> value,
                        ret |-> r.ret, panic |-> r.panic]
            /\ log' = Append(log, Logged("Set", x, r))
    /\ got' = <<>>
    /\ UNCHANGED <<thr, abs, kind, uintSize, calls, rets>>

BoxValue ==
    /\ Len(log) < MaxLog
    /\ LET r == Value_(kind, value)
       IN  /\ value' = r.value
           /\ got' = <<r.ret>>
           /\ log' = Append(log, Logged("Value", Void, r))
    /\ UNCHANGED <<thr, abs, kind, uintSize, last, calls, rets>>

NextBox ==
    \/ BoxSet
    \/ BoxValue

SpecBox == InitBox /\ [][NextBox]_vars
-----------------------------------------------------------------------------
(* Properties *)

\* what Value() returns from a field holding v
Current(v) == Value_(kind, v).ret

\* C1: a CompareAndSwap(old, new) call never panics; it returns true exactly
\* when old equals the value the wrapper held (for floats, the same sign,
\* exponent and mantissa bits); when it returns true the wrapper's value is
\* new, and when it returns false the field is as it was.
CompareAndSwapCorrect ==
    last.op = "CompareAndSwap" =>
        /\ ~last.panic
        /\ last.ret \in BOOLEAN
        /\ last.ret <=> (last.a = Current(last.pre))
        /\ last.ret => Current(value) = last.b
        /\ ~last.ret => value = last.pre

\* a successful CompareAndSwap on an Int holding a negative value, changing it
CompareAndSwapSwapped ==
    /\ last.op = "CompareAndSwap"
    /\ kind = "Int"
    /\ last.ret
    /\ last.a < 0
    /\ last.b # last.a

\* C2: in the counter scenario, once every Add(1) call of every thread has
\* returned, the wrapper's value is NThreads * NCalls, and that is what the
\* final Value() returns.
CounterNoLostUpdate ==
    AllReturned =>
        /\ Current(value) = NThreads * NCalls
        /\ got # <<>> => got[1] = NThreads * NCalls

\* the final read of a Uint64 counter whose threads' calls interleaved
CounterReadAfterInterleaving ==
    /\ AllReturned
    /\ kind = "Uint64"
    /\ got = <<NThreads * NCalls>>
    /\ rets[1][1] = 2
    /\ rets[2][NCalls] = NThreads * NCalls

\* the calls of the log that are Set calls
SetCalls == {i \in 1 .. Len(log) : log[i].op = "Set"}

\* the call logged after call i is a Value() call
ThenValue(i) == i < Len(log) /\ log[i + 1].op = "Value"

\* C3: on an Error, whatever was set before, Set(e) does not panic, and a
\* Value() call that follows it returns e.
ErrorSetNeverFails ==
    kind = "Error" =>
        \A i \in SetCalls :
            /\ ~log[i].panic
            /\ ThenValue(i) => log[i + 1].ret = log[i].a

\* C4: on an Error, Set(nil) followed by Value() returns nil, also when the
\* Set(nil) follows a Set of a non-nil error.
ErrorNilRoundTrip ==
    kind = "Error" =>
        \A i \in SetCalls :
            (log[i].a = Nil /\ ThenValue(i)) => log[i + 1].ret = Nil

\* C5: on a Value, Set(nil) panics; Set of a value whose concrete type is not
\* the one an earlier Set stored panics; Set of a non-nil value whose concrete
\* type is that of every earlier Set does not panic.
ValueSetPanics ==
    kind = "Value" =>
        \A i \in SetCalls :
            LET earlier == {j \in SetCalls : j < i}
                x == log[i].a
            IN  /\ x = Nil => log[i].panic
                /\ (\E j \in earlier : ~log[j].panic /\ log[j].a.typ # x.typ)
                        => log[i].panic
                /\ (x # Nil /\ \A j \in earlier : log[j].a.typ = x.typ)
                        => ~log[i].panic

\* a Value that took a uint64, refused a string and nil, and took a uint64
ValueSetRefused ==
    /\ kind = "Value"
    /\ Len(log) = 4
    /\ log[1].op = "Set" /\ log[1].a.typ = "uint64" /\ ~log[1].panic
    /\ log[2].op = "Set" /\ log[2].a.typ = "string" /\ log[2].panic
    /\ log[3].op = "Set" /\ log[3].a = Nil /\ log[3].panic
    /\ log[4].op = "Set" /\ log[4].a.typ = "uint64" /\ ~log[4].panic
    /\ log[4].a # log[1].a

\* C6: after a Set(v) that the wrapper accepted, the wrapper's value is v, and
\* a Value() call made before any other call returns v.
SetValueRoundTrip ==
    (last.op = "Set" /\ ~last.panic) =>
        /\ Current(value) = last.a
        /\ got # <<>> => got[1] = last.a

\* Value() after Set of a negative number on an Int that held another value
SetNegativeThenValue ==
    /\ last.op = "Set"
    /\ kind = "Int"
    /\ last.a < 0
    /\ last.pre # 0
    /\ got = <<last.a>>

\* C7: Swap(new) never panics, returns the value the wrapper held before, and
\* leaves the wrapper's value equal to new, which a Value() call made before
\* any other call returns.
SwapCorrect ==
    last.op = "Swap" =>
        /\ ~last.panic
        /\ last.ret = Current(last.pre)
        /\ Current(value) = last.a
        /\ got # <<>> => got[1] = last.a

\* a Swap(true) on a Bool that held true, then read
SwapSameThenValue ==
    /\ last.op = "Swap"
    /\ kind = "Bool"
    /\ last.a
    /\ last.ret
    /\ got = <<TRUE>>

\* the value of the wrapped integer type that is congruent to n modulo 2^w
Wrapped(n) ==
    CHOOSE x \in Domain(kind) : (x - n) % Pow2(Width(kind)) = 0

\* C8: on an integer wrapper, Add(delta) returns the sum of the held value and
\* delta wrapped to the type's width, and that is the wrapper's new value; at
\* the maximum, Add(1) yields the minimum.
AddWraps ==
    last.op = "Add" =>
        LET cur == Current(last.pre)
        IN  /\ ~last.panic
            /\ last.ret = Wrapped(cur + last.a)
            /\ Current(value) = last.ret
            /\ (last.a = 1 /\ cur = MaxSigned(Width(kind)) /\ kind \in SignedKinds)
                    => last.ret = MinSigned(Width(kind))
            /\ (last.a = 1 /\ cur = MaxUnsigned(Width(kind)) /\ kind \in UnsignedKinds)
                    => last.ret = 0

\* Add(1) on an Int32 at the maximum
AddOneAtMax ==
    /\ last.op = "Add"
    /\ kind = "Int32"
    /\ last.pre = MaxSigned(Bits32)
    /\ last.a = 1
    /\ last.ret = MinSigned(Bits32)

\* C9: on an unsigned wrapper, Sub(delta) returns the held value minus delta
\* modulo 2^w, and that is the wrapper's new value; this is so for the call
\* made and for a call with any delta of the type; Sub(1) at 0 yields the
\* maximum and Sub(0) leaves the value.
UnsignedSubWraps ==
    kind \in UnsignedKinds =>
        /\ last.op = "Sub" =>
            /\ ~last.panic
            /\ last.ret = (Current(last.pre) - last.a) % Pow2(Width(kind))
            /\ Current(value) = last.ret
        /\ \A delta \in Domain(kind) :
            LET r == Sub_(kind, value, delta)
            IN  /\ r.ret = (Current(value) - delta) % Pow2(Width(kind))
                /\ Current(r.value) = r.ret
        /\ Sub_(kind, value, 0).value = value
        /\ Current(value) = 0 => Sub_(kind, value, 1).ret = MaxUnsigned(Width(kind))

\* Sub(1) on a Uint32 at 0
SubOneAtZero ==
    /\ last.op = "Sub"
    /\ kind = "Uint32"
    /\ last.pre = 0
    /\ last.a = 1
    /\ last.ret = MaxUnsigned(Bits32)

\* C10: on a signed wrapper, Sub(delta) returns the held value minus delta
\* wrapped to the type's width, and that is the wrapper's new value, for the
\* call made and for a call with any delta of the type, the minimum included;
\* Sub(1) at the minimum yields the maximum; Add(d) then Sub(d) restores the
\* value for every d.
SignedSubWraps ==
    kind \in SignedKinds =>
        /\ last.op = "Sub" =>
            /\ ~last.panic
            /\ last.ret = Wrapped(Current(last.pre) - last.a)
            /\ Current(value) = last.ret
        /\ \A delta \in Domain(kind) :
            LET r == Sub_(kind, value, delta)
                s == Sub_(kind, Add_(kind, value, delta).value, delta)
            IN  /\ r.ret = Wrapped(Current(value) - delta)
                /\ Current(r.value) = r.ret
                /\ s.ret = Current(value)
                /\ s.value = value
        /\ Current(value) = MinSigned(Width(kind))
                => Sub_(kind, value, 1).ret = MaxSigned(Width(kind))

\* Sub of the minimum on an Int64 holding a positive value
SubMinimum ==
    /\ last.op = "Sub"
    /\ kind = "Int64"
    /\ last.a = MinSigned(Bits64)
    /\ last.pre > 0
    /\ last.ret = last.pre + MinSigned(Bits64)

-----------------------------------------------------------------------------
(* The float wrappers' Add and Sub, step by step.  A call of thread t is   *)
(* the loop of Add: read the field (old := f.Value()), then compute        *)
(* old + delta and compare-and-swap; a compare-and-swap that fails sends   *)
(* the thread back to the read.  Other threads' steps come in between.     *)

\* the finite floats as integers
ExactNums(w) == {FloatNum(w, f) : f \in {g \in Floats(w) : g.exp < Pow2(ExpBits(w)) - 1}}

IsFinite(w, f) == f.exp < Pow2(ExpBits(w)) - 1

\* abs in the float scenarios: the sum, in exact arithmetic, of the value
\* last set and the deltas added to it since; exact is false once a value
\* set or a delta is not finite or a sum so far is not a float
AbsStart(w, x) ==
    IF IsFinite(w, x)
    THEN [sum |-> FloatNum(w, x), exact |-> TRUE]
    ELSE [sum |-> 0, exact |-> FALSE]

AbsPlus(w, a, delta) ==
    IF a.exact /\ IsFinite(w, delta) /\ a.sum + FloatNum(w, delta) \in ExactNums(w)
    THEN [sum |-> a.sum + FloatNum(w, delta), exact |-> TRUE]
    ELSE [sum |-> 0, exact |-> FALSE]

\* a thread about to call Add or Sub: nothing read yet
NoRead(k) == [NoThread EXCEPT !.old = ZeroValue(k), !.at = ZeroValue(k)]

\* the delta the loop of thread t's call adds
LoopDelta(t) ==
    IF thr[t].op = "Sub" THEN SubDelta_(kind, thr[t].arg) ELSE thr[t].arg

\* the threads after a write that makes the field v2: those between their
\* read and their compare-and-swap have been interfered with if the bits
\* changed
Interfered(t, v2) ==
    [u \in Threads |->
        IF u # t /\ thr[u].pc = "cas" /\ v2 # value
        THEN [thr[u] EXCEPT !.dirty = TRUE]
        ELSE thr[u]]

\* old := f.Value()
AddRead(t) ==
    /\ thr[t].pc = "read"
    /\ thr' = [thr EXCEPT ![t] = [@ EXCEPT !.pc = "cas",
                                           !.old = Value_(kind, value).ret,
                                           !.attempts = @ + 1,
                                           !.dirty = FALSE]]
    /\ UNCHANGED <<kind, uintSize, value, last, got, calls, rets, log, abs>>

\* new := old + delta; if f.CompareAndSwap(old, new) { return new }
AddCompareAndSwap(t) ==
    /\ thr[t].pc = "cas"
    /\ \E o \in AddLoop_(kind, value, thr[t].old, LoopDelta(t)) :
        /\ value' = o.value
        /\ IF o.swapped
           THEN /\ thr' = [Interfered(t, o.value) EXCEPT
                                ![t].pc = "done",
                                ![t].at = Value_(kind, value).ret]
                /\ rets' = [rets EXCEPT ![t] = Append(@, o.new)]
                /\ calls' = [calls EXCEPT ![t] = @ + 1]
                /\ abs' = AbsPlus(Width(kind), abs, LoopDelta(t))
           ELSE /\ thr' = [thr EXCEPT ![t].pc = "read"]
                /\ UNCHANGED <<rets, calls, abs>>
    /\ UNCHANGED <<kind, uintSize, last, got, log>>

-----------------------------------------------------------------------------
(* The float scenario: a float wrapper set to x; thread 1 calls Add(d) or  *)
(* Sub(d); the other threads call Set, at any time before, during and      *)
(* after that call, while fewer than MaxSets Set calls have been made.     *)

\* the deltas the threads add or subtract: the smallest positive float, 1.0
Deltas(k) == {Floatfrombits(Width(k), 1), One(Width(k))}

InitFloat ==
    /\ kind \in FloatKinds
    /\ uintSize = Bits64
    /\ \E x \in Inputs(kind) :
        LET r == Set_(kind, Zero(kind), x)
        IN  /\ value = r.value
            /\ last = [op |-> "Set", a |-> x, b |-> Void, pre |-> Zero(kind),
                       ret |-> r.ret, panic |-> r.panic]
            /\ log = <<Logged("Set", x, r)>>
            /\ abs = AbsStart(Width(kind), x)
    /\ \E op \in {"Add", "Sub"} :
       \E d \in Deltas(kind) :
            thr = [t \in Threads |->
                    IF t = 1
                    THEN [NoRead(kind) EXCEPT !.pc = "read", !.op = op, !.arg = d]
                    ELSE NoThread]
    /\ got = <<>>
    /\ calls = [t \in Threads |-> 0]
    /\ rets = [t \in Threads |-> <<>>]

\* the values the other threads set
SetValues(k) == {PosZero(Width(k)), One(Width(k))}

\* another thread calls Set(x)
OtherSet ==
    /\ Len(log) < MaxSets
    /\ \E x \in SetValues(kind) :
        LET r == Set_(kind, value, x)
        IN  /\ value' = r.value
            /\ last' = [op |-> "Set", a |-> x, b |-> Void, pre |-> value,
                        ret |-> r.ret, panic |-> r.panic]
            /\ log' = Append(log, Logged("Set", x, r))
            /\ thr' = Interfered(0, r.value)
            /\ abs' = AbsStart(Width(kind), x)
    /\ UNCHANGED <<kind, uintSize, got, calls, rets>>

NextFloat ==
    \/ AddRead(1)
    \/ AddCompareAndSwap(1)
    \/ OtherSet

SpecFloat == InitFloat /\ [][NextFloat]_vars

\* the thread that is in a call keeps being scheduled
SpecFloatFair == SpecFloat /\ WF_vars(AddRead(1) \/ AddCompareAndSwap(1))

-----------------------------------------------------------------------------
(* The sum scenario: a float wrapper set to x; each of the NThreads        *)
(* threads calls Add(d) once, all at the same time, each with a d of its   *)
(* own; nobody else writes.                                                *)

InitSum ==
    /\ kind \in FloatKinds
    /\ uintSize = Bits64
    /\ \E x \in {PosZero(Width(kind)), Floatfrombits(Width(kind), 1),
                MaxFloat(Width(kind))} :
        LET r == Set_(kind, Zero(kind), x)
        IN  /\ value = r.value
            /\ last = [op |-> "Set", a |-> x, b |-> Void, pre |-> Zero(kind),
                       ret |-> r.ret, panic |-> r.panic]
            /\ log = <<Logged("Set", x, r)>>
            /\ abs = AbsStart(Width(kind), x)
    /\ \E d \in [Threads -> Deltas(kind)] :
            thr = [t \in Threads |->
                    [NoRead(kind) EXCEPT !.pc = "read", !.op = "Add", !.arg = d[t]]]
    /\ got = <<>>
    /\ calls = [t \in Threads |-> 0]
    /\ rets = [t \in Threads |-> <<>>]

NextSum ==
    \/ \E t \in Threads : AddRead(t)
    \/ \E t \in Threads : AddCompareAndSwap(t)

SpecSum == InitSum /\ [][NextSum]_vars

-----------------------------------------------------------------------------
(* Properties of the Add loop *)

\* C15: the loop of the float wrappers' Add has no bound on its retries:
\* whenever the call stands between its read and its compare-and-swap,
\* another thread has a Set that makes this compare-and-swap fail, leaving
\* the call at its read again with the same delta; so a writer that writes
\* between every read and compare-and-swap keeps the call from returning.
\* Every other operation (Value, Set, Swap, CompareAndSwap) is one step that
\* returns, whatever state the Add call is in.
AddRetryCanBeForced ==
    /\ thr[1].pc = "cas" =>
        \E x \in SetValues(kind) :
        \A o \in AddLoop_(kind, Set_(kind, value, x).value, thr[1].old, LoopDelta(1)) :
            /\ ~o.swapped
            /\ o.value = Set_(kind, value, x).value
    /\ thr[1].pc \in {"read", "cas"} =>
        /\ ~Value_(kind, value).panic
        /\ \A x, y \in Inputs(kind) :
            /\ ~Set_(kind, value, x).panic
            /\ ~Swap_(kind, value, x).panic
            /\ ~CompareAndSwap_(kind, value, x, y).panic

\* the call has been through as many failed attempts as Set calls came in
\* between, and stands at its read again
RetriedAfterEverySet ==
    /\ thr[1].pc = "read"
    /\ Len(log) = MaxSets
    /\ thr[1].attempts = MaxSets - 1

\* C16: the loop retries only when interfered with.  (a) An iteration's
\* compare-and-swap fails only if another thread changed the bits of the
\* slot between that iteration's read and the compare-and-swap.  (b) With no
\* write of another thread the call returns after exactly one attempt,
\* whatever float is stored, NaN and either zero included.  (c) The other
\* threads writing only finitely often, a call that keeps being scheduled
\* returns.
AddRetriesOnlyWhenInterfered ==
    /\ [](thr[1].pc = "read" /\ thr[1].attempts > 0 => thr[1].dirty)
    /\ [](thr[1].pc = "done" /\ Len(log) = 1 => thr[1].attempts = 1)
    /\ <>(thr[1].pc = "done")

\* Add on a slot holding a NaN, no other write: returned after one attempt
AddToNaNReturnedAtOnce ==
    /\ thr[1].pc = "done"
    /\ Len(log) = 1
    /\ IsNaN(Width(kind), log[1].a)
    /\ thr[1].attempts = 1
    /\ IsNaN(Width(kind), rets[1][1])

\* the deltas of the calls that have returned, summed exactly
DeltaSum[n \in 0 .. NThreads] ==
    IF n = 0 THEN 0
    ELSE DeltaSum[n - 1]
            + (IF thr[n].pc = "done" THEN FloatNum(Width(kind), thr[n].arg) ELSE 0)

\* C17: threads add concurrently, nobody else writes, and every sum that
\* arises is exactly a float.  Then no Add is lost: the value is the value
\* set at the start plus the deltas of the calls that have returned (all of
\* them at the end); and each call returns old + delta, old being what the
\* slot held at the call's successful compare-and-swap.
ConcurrentAddsAllCounted ==
    LET w == Width(kind)
    IN  /\ abs.exact =>
            /\ IsFinite(w, Current(value))
            /\ FloatNum(w, Current(value)) = FloatNum(w, log[1].a) + DeltaSum[NThreads]
        /\ \A t \in Threads :
            thr[t].pc = "done" =>
                /\ Len(rets[t]) = 1
                /\ rets[t][1] \in FloatPlus(w, thr[t].at, thr[t].arg)

\* two Add(1.0) on a Float32 holding 0.0: both returned, thread 2 after a
\* failed attempt, and the slot holds 2.0
BothAddsCounted ==
    /\ \A t \in Threads : thr[t].pc = "done"
    /\ kind = "Float32"
    /\ abs.exact
    /\ log[1].a = PosZero(Bits32)
    /\ thr[1].arg = One(Bits32)
    /\ thr[2].arg = One(Bits32)
    /\ thr[2].attempts = 2
    /\ Float32frombits(value) = [sign |-> 0, exp |-> 2, man |-> 0]

-----------------------------------------------------------------------------
(* The round trip scenario: one thread, a float wrapper set to x; the      *)
(* thread calls Add(d), then Sub(d); x and d are any floats.               *)

InitRoundTrip ==
    /\ kind \in FloatKinds
    /\ uintSize = Bits64
    /\ \E x \in Floats(Width(kind)) :
       \E d \in Floats(Width(kind)) :
        LET r == Set_(kind, Zero(kind), x)
        IN  /\ value = r.value
            /\ last = [op |-> "Set", a |-> x, b |-> Void, pre |-> Zero(kind),
                       ret |-> r.ret, panic |-> r.panic]
            /\ log = <<Logged("Set", x, r)>>
            /\ thr = [t \in Threads |->
                        IF t = 1
                        THEN [NoRead(kind) EXCEPT !.pc = "read", !.op = "Add", !.arg = d]
                        ELSE NoThread]
            /\ abs = AbsStart(Width(kind), x)
    /\ got = <<>>
    /\ calls = [t \in Threads |-> 0]
    /\ rets = [t \in Threads |-> <<>>]

\* Add(d) has returned: the thread calls Sub(d)
ThenSub(t) ==
    /\ thr[t].pc = "done"
    /\ thr[t].op = "Add"
    /\ thr' = [thr EXCEPT ![t] = [NoRead(kind) EXCEPT !.pc = "read", !.op = "Sub",
                                                  !.arg = thr[t].arg]]
    /\ UNCHANGED <<kind, uintSize, value, last, got, calls, rets, log, abs>>

NextRoundTrip ==
    \/ AddRead(1)
    \/ AddCompareAndSwap(1)
    \/ ThenSub(1)

SpecRoundTrip == InitRoundTrip /\ [][NextRoundTrip]_vars

\* Add(d) and then Sub(d) have returned
RoundTripDone == thr[1].pc = "done" /\ thr[1].op = "Sub"

\* C12 as stated: on a float wrapper holding any x, used by one thread,
\* Add(d) followed by Sub(d), for any d, leaves the field with the bits of
\* x, and Sub(d) returns x.
AddSubRestoresAlways ==
    RoundTripDone =>
        /\ value = Floatbits(Width(kind), log[1].a)
        /\ rets[1][2] = log[1].a

\* x and d are finite, x is not -0.0, and x + d is a float: the addition
\* does not round or overflow
SumIsExact ==
    LET w == Width(kind)
        x == log[1].a
        d == thr[1].arg
    IN  /\ IsFinite(w, x)
        /\ IsFinite(w, d)
        /\ x # NegZero(w)
        /\ FloatNum(w, x) + FloatNum(w, d) \in ExactNums(w)

\* C12, amended: on a float wrapper holding a finite x other than -0.0,
\* used by one thread, Add(d) followed by Sub(d), for a finite d whose sum
\* with x is exactly a float, leaves the field with the bits of x, and
\* Sub(d) returns x.
AddSubRestoresExactSums ==
    (RoundTripDone /\ SumIsExact) =>
        /\ value = Floatbits(Width(kind), log[1].a)
        /\ rets[1][2] = log[1].a

\* a Float32 holding 1.0 had the smallest subnormal added and subtracted
RoundTripOfOne ==
    /\ RoundTripDone
    /\ SumIsExact
    /\ kind = "Float32"
    /\ log[1].a = One(Bits32)
    /\ thr[1].arg = [sign |-> 0, exp |-> 0, man |-> 1]
    /\ rets[1] = <<[sign |-> 0, exp |-> 1, man |-> 1], One(Bits32)>>

-----------------------------------------------------------------------------
(* The election scenario: the instance holds old; NThreads threads each    *)
(* call CompareAndSwap(old, new) once, with the same old and new, old and  *)
(* new different; nobody else writes.                                      *)

InitElect ==
    /\ kind \in WordKinds
    /\ uintSize \in (IF kind \in PlatformKinds THEN {Bits32, Bits64} ELSE {Bits64})
    /\ \E old \in Inputs(kind) :
       \E new \in Inputs(kind) \ {old} :
            /\ value = Set_(kind, Zero(kind), old).value
            /\ last = [op |-> "Set", a |-> old, b |-> Void, pre |-> Zero(kind),
                       ret |-> Void, panic |-> FALSE]
            /\ thr = [t \in Threads |->
                        [NoThread EXCEPT !.pc = "call", !.op = "CompareAndSwap",
                                         !.old = old, !.arg = new]]
    /\ got = <<>>
    /\ calls = [t \in Threads |-> 0]
    /\ rets = [t \in Threads |-> <<>>]
    /\ log = <<>>
    /\ abs = Void

ThreadCompareAndSwap(t) ==
    /\ thr[t].pc = "call"
    /\ LET r == CompareAndSwap_(kind, value, thr[t].old, thr[t].arg)
       IN  /\ value' = r.value
           /\ last' = [op |-> "CompareAndSwap", a |-> thr[t].old, b |-> thr[t].arg,
                       pre |-> value, ret |-> r.ret, panic |-> r.panic]
           /\ rets' = [rets EXCEPT ![t] = <<r.ret>>]
    /\ calls' = [calls EXCEPT ![t] = @ + 1]
    /\ thr' = [thr EXCEPT ![t].pc = "done"]
    /\ got' = <<>>
    /\ UNCHANGED <<kind, uintSize, log, abs>>

NextElect == \E t \in Threads : ThreadCompareAndSwap(t)

SpecElect == InitElect /\ [][NextElect]_vars

\* the threads whose CompareAndSwap returned true
Winners == {t \in Threads : rets[t] = <<TRUE>>}

\* C20: of the threads that concurrently call CompareAndSwap(old, new) with
\* the same old and new, old different from new, on an instance holding old
\* that nobody writes old back to, never more than one has got true; once
\* all have returned exactly one has got true and all the others false, and
\* the instance holds new.
OneCompareAndSwapWinner ==
    /\ Cardinality(Winners) <= 1
    /\ (\A t \in Threads : thr[t].pc = "done") =>
            /\ Cardinality(Winners) = 1
            /\ \A t \in Threads \ Winners : rets[t] = <<FALSE>>
            /\ Current(value) = thr[1].arg

\* CompareAndSwap(false, true) on a declared Bool: all have returned, thread 2 won
SecondThreadWon ==
    /\ \A t \in Threads : thr[t].pc = "done"
    /\ kind = "Bool"
    /\ thr[1].old = FALSE
    /\ thr[1].arg = TRUE
    /\ rets[2] = <<TRUE>>
    /\ rets[1] = <<FALSE>>

-----------------------------------------------------------------------------
(* The zero value *)

\* C11: a wrapper that no call has written yet is usable as declared:
\* Value() does not panic and returns false for Bool, 0 for the integer
\* wrappers and Duration, +0.0 for the floats, "" for String and nil for
\* Error, Value and Pointer; and that is what a caller who read it got.
ZeroValueUsable ==
    last.op = "none" =>
        LET r == Value_(kind, value)
        IN  /\ ~r.panic
            /\ r.ret = ZeroValue(kind)
            /\ r.value = Zero(kind)
            /\ got # <<>> => got[1] = ZeroValue(kind)

\* a fresh String has been read and "" came back
ZeroValueRead == last.op = "none" /\ kind = "String" /\ got # <<>> /\ got[1] = ""

-----------------------------------------------------------------------------
(* Floats are compared by their bits *)

\* C13: CompareAndSwap of Float32 and Float64 compares bit patterns, not
\* values.  On a slot holding one zero, a call with old the other zero
\* (equal to it by ==) returns false and leaves the slot; on a slot holding a
\* NaN pattern, a call with old that same pattern returns true and stores
\* new, and a call with old a NaN of another pattern returns false and
\* leaves the slot.
FloatCompareAndSwapBitwise ==
    (last.op = "CompareAndSwap" /\ kind \in FloatKinds) =>
        LET w == Width(kind)
            cur == Floatfrombits(w, last.pre)
            old == last.a
        IN  /\ (IsZero(cur) /\ IsZero(old) /\ cur # old) =>
                /\ FloatEq(w, cur, old)
                /\ last.ret = FALSE
                /\ value = last.pre
            /\ (IsNaN(w, cur) /\ old = cur) =>
                /\ ~FloatEq(w, cur, old)
                /\ last.ret = TRUE
                /\ value = Floatbits(w, last.b)
            /\ (IsNaN(w, cur) /\ IsNaN(w, old) /\ old # cur) =>
                /\ last.ret = FALSE
                /\ value = last.pre

\* a Float32 holding -0.0 was called with old = +0.0 and refused
NegZeroNotSwappedForPosZero ==
    /\ last.op = "CompareAndSwap"
    /\ kind = "Float32"
    /\ last.pre = Float32bits(NegZero(Bits32))
    /\ last.a = PosZero(Bits32)
    /\ last.ret = FALSE

-----------------------------------------------------------------------------
(* The encoding of Bool *)

\* C18: after any sequence of Set, Swap and CompareAndSwap calls on a Bool
\* that started as declared, the slot holds 0 or 1; so the two readings of
\* the slot agree: CompareAndSwap(true, x), which takes true to be 1,
\* succeeds for every x exactly when Value(), which takes true to be any
\* slot above 0, returns true (and CompareAndSwap(false, x) exactly when it
\* returns false).
BoolSlotZeroOrOne ==
    kind = "Bool" =>
        /\ value \in {0, 1}
        /\ \A x \in BOOLEAN :
            /\ BoolCompareAndSwap(value, TRUE, x).ret = BoolValue(value).ret
            /\ BoolCompareAndSwap(value, FALSE, x).ret = ~BoolValue(value).ret

\* a Bool set to true by a successful CompareAndSwap(false, true), then read
BoolSwappedToTrue ==
    /\ kind = "Bool"
    /\ last.op = "CompareAndSwap"
    /\ last.a = FALSE
    /\ last.b = TRUE
    /\ last.ret = TRUE
    /\ value = 1
    /\ got = <<TRUE>>

-----------------------------------------------------------------------------
(* Add as a ticket dispenser *)

\* the values returned so far to all the threads
Returned == UNION {{rets[t][i] : i \in 1 .. Len(rets[t])} : t \in Threads}

\* the largest value of the wrapped integer type
MaxOf(k) == IF k \in SignedKinds THEN MaxSigned(Width(k)) ELSE MaxUnsigned(Width(k))

\* C19: NThreads threads each call Add(1) NCalls times on an integer wrapper
\* that starts at 0, nobody else writes, and the total does not wrap.  The
\* values returned are pairwise distinct and are, at every moment, exactly
\* 1 .. the number of calls returned (1 .. NThreads * NCalls at the end);
\* the values one thread gets are strictly increasing in its call order.
AddReturnsDistinctTickets ==
    NThreads * NCalls <= MaxOf(kind) =>
        /\ \A t, u \in Threads :
           \A i \in 1 .. Len(rets[t]) :
           \A j \in 1 .. Len(rets[u]) :
                (t # u \/ i # j) => rets[t][i] # rets[u][j]
        /\ Returned = 1 .. Cardinality(Returned)
        /\ AllReturned => Returned = 1 .. NThreads * NCalls
        /\ \A t \in Threads :
           \A i, j \in 1 .. Len(rets[t]) :
                i < j => rets[t][i] < rets[t][j]

\* all calls on an Int64 have returned; thread 1's first call got 2, after
\* thread 2's first call got 1
TicketsInterleaved ==
    /\ AllReturned
    /\ kind = "Int64"
    /\ rets[1][1] = 2
    /\ rets[2][1] = 1

-----------------------------------------------------------------------------
(* The order scenario: NThreads threads call Value, Set, Swap,             *)
(* CompareAndSwap and (on the integer wrappers) Add on one instance, each  *)
(* up to NCalls times, with any arguments, at any time.  Each call is the  *)
(* one sync/atomic operation of its method; the calls take effect in the   *)
(* order of these operations.  abs is the instance as a variable of the    *)
(* wrapped type on which the same calls are made one after the other in    *)
(* that order: abs.cur is its value, abs.agreed says that every call so    *)
(* far returned what the call on the variable returns.                     *)

\* the methods on a plain variable a of the wrapped type
SeqValue(a) == [cur |-> a, ret |-> a]
SeqSet(a, x) == [cur |-> x, ret |-> Void]
SeqSwap(a, new) == [cur |-> new, ret |-> a]
SeqCompareAndSwap(a, old, new) ==
    IF a = old THEN [cur |-> new, ret |-> TRUE] ELSE [cur |-> a, ret |-> FALSE]
SeqAdd(a, delta) == [cur |-> Wrapped(a + delta), ret |-> Wrapped(a + delta)]

InitOrder ==
    /\ kind \in WordKinds
    /\ uintSize \in (IF kind \in PlatformKinds THEN {Bits32, Bits64} ELSE {Bits64})
    /\ value = Zero(kind)
    /\ last = NoCall
    /\ got = <<>>
    /\ calls = [t \in Threads |-> 0]
    /\ rets = [t \in Threads |-> <<>>]
    /\ log = <<>>
    /\ thr = [t \in Threads |-> NoThread]
    /\ abs = [cur |-> ZeroValue(kind), agreed |-> TRUE]

\* thread t's call takes effect: r is what the method does, s what the call
\* on the variable does
TakesEffect(t, r, s) ==
    /\ calls[t] < NCalls
    /\ value' = r.value
    /\ abs' = [cur |-> s.cur,
               agreed |-> abs.agreed /\ ~r.panic /\ r.ret = s.ret]
    /\ calls' = [calls EXCEPT ![t] = @ + 1]
    /\ UNCHANGED <<kind, uintSize, last, got, rets, log, thr>>

ThreadValue(t) == TakesEffect(t, Value_(kind, value), SeqValue(abs.cur))

ThreadSet(t) ==
    \E x \in Inputs(kind) :
        TakesEffect(t, Set_(kind, value, x), SeqSet(abs.cur, x))

ThreadSwap(t) ==
    \E new \in Inputs(kind) :
        TakesEffect(t, Swap_(kind, value, new), SeqSwap(abs.cur, new))

ThreadCas(t) ==
    \E old \in Inputs(kind) \cup {Value_(kind, value).ret} :
    \E new \in Inputs(kind) :
        TakesEffect(t, CompareAndSwap_(kind, value, old, new),
                    SeqCompareAndSwap(abs.cur, old, new))

ThreadAddDelta(t) ==
    /\ kind \in IntegerKinds
    /\ \E delta \in Inputs(kind) :
        TakesEffect(t, Add_(kind, value, delta), SeqAdd(abs.cur, delta))

NextOrder ==
    \/ \E t \in Threads : ThreadValue(t)
    \/ \E t \in Threads : ThreadSet(t)
    \/ \E t \in Threads : ThreadSwap(t)
    \/ \E t \in Threads : ThreadCas(t)
    \/ \E t \in Threads : ThreadAddDelta(t)

SpecOrder == InitOrder /\ [][NextOrder]_vars

\* C14: whatever the threads call and however their calls interleave, the
\* calls take effect one at a time in one order: every call returned what
\* the same call returns on a plain variable of the wrapped type when the
\* calls are made one after the other in that order, and the instance holds
\* that variable's value.  So a call only ever observes the zero value or
\* what the latest earlier write produced.
CallsTakeEffectInOneOrder ==
    /\ abs.agreed
    /\ ~Value_(kind, value).panic
    /\ Current(value) = abs.cur

\* both threads have made all their calls on an Int64, which has wrapped
\* around to the minimum
OrderedCallsWrapped ==
    /\ \A t \in Threads : calls[t] = NCalls
    /\ kind = "Int64"
    /\ abs.agreed
    /\ abs.cur = MinSigned(Bits64)

-----------------------------------------------------------------------------
(* A refused Set *)

\* the Set calls before call i that did not panic
StoredBefore(i) == {j \in SetCalls : j < i /\ ~log[j].panic}

\* what the Value holds when call i is made, by the calls logged: the
\* argument of the last Set before i that did not panic, nil if there is none
HeldBefore(i) ==
    IF StoredBefore(i) = {} THEN Nil
    ELSE log[CHOOSE j \in StoredBefore(i) : \A k \in StoredBefore(i) : k <= j].a

\* C21: on a Value, a Set that panics (nil, or a concrete type other than
\* the one stored) leaves the field as it was; so every Value() call returns
\* the argument of the last Set that did not panic, nil if none did, however
\* many Sets panicked in between; and a Set of a non-nil value of the
\* concrete type stored does not panic, also after Sets that did.
RefusedSetChangesNothing ==
    kind = "Value" =>
        /\ (last.op = "Set" /\ last.panic) => value = last.pre
        /\ Current(value) = HeldBefore(Len(log) + 1)
        /\ \A i \in 1 .. Len(log) :
            /\ log[i].op = "Value" =>
                    /\ ~log[i].panic
                    /\ log[i].ret = HeldBefore(i)
            /\ (/\ log[i].op = "Set"
                /\ log[i].a # Nil
                /\ HeldBefore(i) # Nil
                /\ log[i].a.typ = HeldBefore(i).typ) => ~log[i].panic

\* a Value took a uint64 and refused a string; Value() then returned the
\* uint64, and another uint64 was taken
ReadAfterRefusedSet ==
    /\ kind = "Value"
    /\ Len(log) = 4
    /\ log[1].op = "Set" /\ log[1].a = Iface("uint64", "1337") /\ ~log[1].panic
    /\ log[2].op = "Set" /\ log[2].a.typ = "string" /\ log[2].panic
    /\ log[3].op = "Value" /\ log[3].ret = Iface("uint64", "1337")
    /\ log[4].op = "Set" /\ log[4].a = Iface("uint64", "987654321") /\ ~log[4].panic

=============================================================================
